---- MODULE Spec2Model ----
(***************************************************************************)
(* A model of scripts/embed_cards.py: the card normalizer                  *)
(* (build_embed_text, extract_props), the checkpoint store (offset         *)
(* resolution and commit), the batch encoder loop and the pipeline driver  *)
(* main().                                                                 *)
(*                                                                         *)
(* Strings are sequences of tokens, so that concatenation, joining and the *)
(* truthiness tests of the code ("" and None are both falsy) are what the  *)
(* code does.  A JSON null / absent key is the reserved value None.        *)
(***************************************************************************)
EXTENDS Integers, Sequences, FiniteSets, TLC

\* ------------------------------------------------------------------ bounds
\* The longest card collection explored.
MaxCards == 3
\* The largest explicit --offset and the largest --limit explored (the
\* smallest of each is -1: argparse's type=int accepts negative numbers).
MaxOffset == 2
MaxLimit == 2
\* The batch sizes of the encode loop, scaled down from the code's 32 (hf)
\* and 64 (st) so that a collection of MaxCards cards spans several batches.
BatchSizeHF == 1
BatchSizeST == 2
\* The longest card_faces list explored for build_embed_text.
MaxFaces == 2

\* ------------------------------------------------------------ JSON values
None == <<"<None>">>
\* Python truthiness of a string-or-None value: `if x`.
Truthy(x) == x # None /\ x # <<>>
\* Python `x or ""`.
OrEmpty(x) == IF Truthy(x) THEN x ELSE <<>>

\* sep.join(parts)
Join(parts, sep) ==
    LET joined[n \in 0..Len(parts)] ==
            IF n = 0 THEN <<>>
            ELSE IF n = 1 THEN parts[1]
            ELSE joined[n - 1] \o sep \o parts[n]
    IN  joined[Len(parts)]

\* ------------------------------------------------------------- normalizer
ColorName(c) ==
    CASE c = "W" -> "White"
      [] c = "U" -> "Blue"
      [] c = "B" -> "Black"
      [] c = "R" -> "Red"
      [] c = "G" -> "Green"
      [] OTHER -> c

colors_to_words(colors) ==
    IF colors = <<>> THEN <<"Colorless">>
    ELSE Join([k \in 1..Len(colors) |-> <<ColorName(colors[k])>>], <<"/">>)

RECURSIVE FacePartsOracleOnly(_)
\* FaceParts with the test of extract_props (`if ot`) in place of `if tl or ot`
FacePartsOracleOnly(faces) ==
    IF faces = <<>> THEN <<>>
    ELSE LET f == Head(faces)
             tl == OrEmpty(f.type_line)
             ot == OrEmpty(f.oracle_text)
         IN  (IF ot # <<>> THEN << tl \o <<" :: ">> \o ot >> ELSE <<>>)
             \o FacePartsOracleOnly(Tail(faces))

RECURSIVE FaceParts(_)
\* the parts list of build_embed_text: one "<tl> :: <ot>" per face that has a
\* type line or an oracle text
FaceParts(faces) ==
    IF faces = <<>> THEN <<>>
    ELSE LET f == Head(faces)
             tl == OrEmpty(f.type_line)
             ot == OrEmpty(f.oracle_text)
         IN  (IF tl # <<>> \/ ot # <<>> THEN << tl \o <<" :: ">> \o ot >> ELSE <<>>)
             \o FaceParts(Tail(faces))

\* card.get("card_faces") or []: an absent or null card_faces is held as the
\* empty list, which the code does not tell apart from it
FacesOf(c) == c.card_faces

EmbedOracle(c) ==
    IF Truthy(c.oracle_text) THEN c.oracle_text
    ELSE Join(FaceParts(FacesOf(c)), <<" || ">>)

build_embed_text(c, include_name) ==
    LET name == c.name
        type_line == c.type_line
        mana_cost == c.mana_cost
        colors_str == colors_to_words(IF c.colors = None THEN <<>> ELSE c.colors)
        oracle_text == OrEmpty(EmbedOracle(c))
        fields ==
            (IF include_name /\ Truthy(name) THEN << <<"Name: ">> \o name >> ELSE <<>>)
            \o (IF Truthy(type_line) THEN << <<"Type: ">> \o type_line >> ELSE <<>>)
            \o (IF Truthy(mana_cost) THEN << <<"ManaCost: ">> \o mana_cost >> ELSE <<>>)
            \o << <<"Colors: ">> \o colors_str >>
            \o (IF Truthy(oracle_text) THEN << <<"Oracle: ">> \o oracle_text >> ELSE <<>>)
    IN  Join(fields, <<"\n">>)

RECURSIVE FaceOracles(_)
\* the parts list of extract_props: the non-empty face oracle texts
FaceOracles(faces) ==
    IF faces = <<>> THEN <<>>
    ELSE LET ot == OrEmpty(Head(faces).oracle_text)
         IN  (IF ot # <<>> THEN <<ot>> ELSE <<>>) \o FaceOracles(Tail(faces))

\* The tokens float() and int() accept.
NumTokens == {"0", "1", "2", "3"}
IsNumber(v) == Len(v) = 1 /\ v[1] \in NumTokens

\* float(card.get("cmc")) raises for a value that is no number.
ExtractPropsRaises(c) == c.cmc # None /\ ~IsNumber(c.cmc)

\* The property record (the keys that depend on the card's id, texts, faces
\* and numbers; the remaining keys are all of the shape `card.get(k) or ""`).
extract_props(c) ==
    [scryfall_id |-> c.id,
     name        |-> c.name,
     mana_cost   |-> OrEmpty(c.mana_cost),
     cmc         |-> c.cmc,
     type_line   |-> OrEmpty(c.type_line),
     oracle_text |-> OrEmpty(IF Truthy(c.oracle_text) THEN c.oracle_text
                             ELSE Join(FaceOracles(FacesOf(c)), <<" || ">>))]

PropKeys == {"scryfall_id", "name", "mana_cost", "cmc", "type_line", "oracle_text"}

\* {k: v for k, v in props.items() if v is not None}
clean_props(props) ==
    [k \in {x \in PropKeys : props[x] # None} |-> props[k]]

\* ---------------------------------------------------------- batch encoder
RECURSIVE Gcd(_, _)
Gcd(a, b) == IF b = 0 THEN a ELSE Gcd(b, a % b)
Abs(x) == IF x < 0 THEN -x ELSE x

RECURSIVE SumSq(_)
SumSq(vec) == IF vec = <<>> THEN 0 ELSE Head(vec) * Head(vec) + SumSq(Tail(vec))

RECURSIVE GcdAll(_)
GcdAll(vec) == IF vec = <<>> THEN 0 ELSE Gcd(Abs(Head(vec)), GcdAll(Tail(vec)))

\* A vector of reals num[k] / sqrt(den2), held exactly: num is reduced by the
\* gcd of its components, so that equal real vectors are equal records.
\* s <= 0 returns vec itself; otherwise every component is divided by sqrt(s).
l2_normalize(vec) ==
    LET s == SumSq(vec)
    IN  IF s <= 0 THEN [num |-> vec, den2 |-> 1]
        ELSE LET g == GcdAll(vec)
                 red == [k \in 1..Len(vec) |-> vec[k] \div g]
             IN  [num |-> red, den2 |-> SumSq(red)]

\* The opaque encoder, as a deterministic stub: one raw row per text, a
\* function of the text alone (here of its length); one text length in six
\* gives the degenerate all-zero row.
RawVector(text) == << ((Len(text) + 2) % 3) * 3, (Len(text) % 2) * 4 >>

\* model.encode(batch, batch_size=len(batch)): one row per text, in order
encode(batch) == [k \in 1..Len(batch) |-> RawVector(batch[k])]

\* batch_size = 32 if kind == "hf" else 64 (scaled down, see the bounds)
batch_size(kind) == IF kind = "hf" THEN BatchSizeHF ELSE BatchSizeST

Min(a, b) == IF a < b THEN a ELSE b

\* Python's texts[i:i+n] for 0 <= i
Slice(s, i, n) == SubSeq(s, i + 1, Min(i + n, Len(s)))

\* EncodeRows with the rows of a batch taken in reverse
EncodeRowsReversed(batch) ==
    LET embs == encode(batch)
    IN  [k \in 1..Len(embs) |-> l2_normalize(embs[Len(embs) + 1 - k])]

\* one pass of the encode loop's body: the rows of one batch, normalized
EncodeRows(batch) ==
    LET embs == encode(batch)
    IN  [k \in 1..Len(embs) |-> l2_normalize(embs[k])]

\* --------------------------------------------------------------- the cards
\* The card records the collections are built from.
PoolCard(n) ==
    CASE n = 1 -> \* a single-faced card
            [hasId |-> TRUE, name |-> <<"Bolt">>, type_line |-> <<"Instant">>,
             mana_cost |-> <<"{R}">>, colors |-> <<"R">>,
             oracle_text |-> <<"deal 3">>, card_faces |-> <<>>, cmc |-> <<"1">>]
      [] n = 2 -> \* a double-faced card with no top-level texts and no cmc
            [hasId |-> TRUE, name |-> <<"Counter">>, type_line |-> None,
             mana_cost |-> None, colors |-> <<>>, oracle_text |-> None,
             card_faces |-> << [type_line |-> <<"Creature">>, oracle_text |-> <<"flip">>],
                               [type_line |-> None, oracle_text |-> <<"back">>] >>,
             cmc |-> None]
      [] n = 3 -> \* a card with no identifier (and a cmc float() rejects)
            [hasId |-> FALSE, name |-> None, type_line |-> None,
             mana_cost |-> None, colors |-> None, oracle_text |-> None,
             card_faces |-> <<>>, cmc |-> <<"abc">>]
      [] OTHER -> \* a malformed record: an identifier, and a cmc float() rejects
            [hasId |-> TRUE, name |-> <<"Bad">>, type_line |-> None,
             mana_cost |-> None, colors |-> <<>>, oracle_text |-> <<>>,
             card_faces |-> <<>>, cmc |-> <<"abc">>]

\* The identifier of the card at position p (identifiers are unique).
CardId(p) == <<"id", ToString(p)>>

\* A collection is a sequence of card kinds: 1 a well-formed card, 2 a card
\* with no identifier, 3 a malformed card.  The well-formed cards alternate
\* between the two well-formed records by position, so that neighbouring
\* texts differ and texts two positions apart are equal.
CardKinds == 1..3
RecordAt(coll, p) ==
    CASE coll[p] = 1 -> IF p % 2 = 1 THEN PoolCard(1) ELSE PoolCard(2)
      [] coll[p] = 2 -> PoolCard(3)
      [] OTHER -> PoolCard(4)

\* The card at position p (1-based) of a collection.
CardAt(coll, p) ==
    LET c == RecordAt(coll, p)
    IN  [id |-> IF c.hasId THEN CardId(p) ELSE None,
         name |-> c.name, type_line |-> c.type_line, mana_cost |-> c.mana_cost,
         colors |-> c.colors, oracle_text |-> c.oracle_text,
         card_faces |-> c.card_faces, cmc |-> c.cmc]

Collections == UNION {[1..n -> CardKinds] : n \in 0..MaxCards}

\* ------------------------------------------------------------ the pipeline
VARIABLES
    cards,        \* the parsed --scryfall-json document (pool numbers)
    cpFile,       \* the --checkpoint file
    batchFile,    \* the --batch-out file
    args,         \* the parsed command line of the current run
    pc,           \* where main() stands
    failed,       \* the step whose exception ended the run, or "none"
    warned,       \* the WARN lines printed by the current run
    kind,         \* load_model's encoder tag
    start_offset,
    texts,
    idx_map,
    vectors,
    enc_i,        \* the encode loop's i
    objects,
    cpBefore,     \* the checkpoint file when the current run started
    batchBefore,  \* the batch file when the current run started
    prev,         \* the run before the current one, when it resumed and committed
    card,         \* the normalizer's input (text specification)
    include_name,
    text_out      \* build_embed_text's result

vars == <<cards, cpFile, batchFile, args, pc, failed, warned, kind, start_offset,
          texts, idx_map, vectors, enc_i, objects, cpBefore, batchBefore, prev,
          card, include_name, text_out>>

runVars == <<kind, start_offset, texts, idx_map, vectors, enc_i, objects>>
textVars == <<card, include_name, text_out>>

\* ---- files
\* A checkpoint file: missing, not JSON (also empty or cut short), a JSON
\* document that is no mapping, or a mapping whose next_offset is
\*   t = "int": the integer v            t = "str": the numeric string "v"
\*   t = "float": the float v + 0.5      t = "badstr": a non-numeric string
\*   t = "null": null                    t = "absent": the key is missing
CpFile(k, t, v, total) == [kind |-> k, t |-> t, v |-> v, total |-> total]
CpMissing == CpFile("missing", "absent", 0, 0)
CpGarbage == CpFile("garbage", "absent", 0, 0)
CpNotMap == CpFile("notmap", "absent", 0, 0)
CpMap(t, v) == CpFile("map", t, v, 0)

\* what a run may find at the checkpoint path before the first run
InitialCheckpoints ==
    {CpMissing, CpNotMap, CpMap("str", 1), CpMap("float", 1), CpMap("null", 0),
     CpMap("badstr", 0), CpMap("absent", 0)}

\* A batch file: missing, cut short, or a complete {"objects": [...]}.
BatchMissing == [kind |-> "missing", objects |-> <<>>]
BatchPartial == [kind |-> "partial", objects |-> <<>>]
BatchOk(objs) == [kind |-> "ok", objects |-> objs]

NoPrev == [ok |-> FALSE, limit |-> 0, ids |-> {}]

Offsets == -1..MaxOffset
Limits == -1..MaxLimit

\* ---- checkpoint store
\* int(state.get("next_offset", 0)) raises TypeError / ValueError
IntRaises(f) == f.t \in {"null", "badstr"}
\* int(state.get("next_offset", 0)): a numeric string is parsed, a float is
\* truncated, a missing key defaults to 0
IntOf(f) == IF f.t = "absent" THEN 0 ELSE f.v

\* Reading the checkpoint raises something other than FileNotFoundError.
ReadRaises(f) == f.kind \in {"garbage", "notmap"} \/ (f.kind = "map" /\ IntRaises(f))

\* ResolvedOffset without the test cp_off > 0
ResolvedOffsetAnySign(offset, checkpoint, f) ==
    IF checkpoint /\ f.kind = "map" /\ ~IntRaises(f) /\ offset = 0
    THEN IntOf(f)
    ELSE offset

\* lines 197-208: the start offset of a run
ResolvedOffset(offset, checkpoint, f) ==
    IF checkpoint /\ f.kind = "map" /\ ~IntRaises(f) /\ offset = 0 /\ IntOf(f) > 0
    THEN IntOf(f)
    ELSE offset

\* ---- windowing
RECURSIVE WindowLoopCountsAll(_, _, _, _, _, _, _)
\* WindowLoop with the cards that have no identifier counted against the limit
WindowLoopCountsAll(coll, start, limit, k, i, processed, acc) ==
    IF k > Len(coll) THEN [raised |-> FALSE, acc |-> acc]
    ELSE IF i < start
         THEN WindowLoopCountsAll(coll, start, limit, k + 1, i + 1, processed, acc)
    ELSE LET c == CardAt(coll, k)
         IN  IF ~Truthy(c.id)
             THEN IF limit # 0 /\ processed + 1 >= limit
                  THEN [raised |-> FALSE, acc |-> acc]
                  ELSE WindowLoopCountsAll(coll, start, limit, k + 1, i, processed + 1, acc)
             ELSE IF ExtractPropsRaises(c) THEN [raised |-> TRUE, acc |-> acc]
             ELSE IF limit # 0 /\ processed + 1 >= limit
                  THEN [raised |-> FALSE, acc |-> Append(acc, k)]
                  ELSE WindowLoopCountsAll(coll, start, limit, k + 1, i + 1,
                                           processed + 1, Append(acc, k))

RECURSIVE WindowLoop(_, _, _, _, _, _, _)
\* The loop of lines 217-231 from the k-th card on: acc is the positions
\* accepted so far; raised tells that extract_props raised.
WindowLoop(coll, start, limit, k, i, processed, acc) ==
    IF k > Len(coll) THEN [raised |-> FALSE, acc |-> acc]
    ELSE IF i < start THEN WindowLoop(coll, start, limit, k + 1, i + 1, processed, acc)
    ELSE LET c == CardAt(coll, k)
         IN  IF ~Truthy(c.id)
             THEN WindowLoop(coll, start, limit, k + 1, i, processed, acc)
             ELSE IF ExtractPropsRaises(c) THEN [raised |-> TRUE, acc |-> acc]
             ELSE IF limit # 0 /\ processed + 1 >= limit
                  THEN [raised |-> FALSE, acc |-> Append(acc, k)]
                  ELSE WindowLoop(coll, start, limit, k + 1, i + 1, processed + 1,
                                  Append(acc, k))

\* lines 253-262
MakeObject(entry, vec) ==
    [class |-> "Card", id |-> entry.cid, properties |-> clean_props(entry.props),
     vector |-> vec]

\* zip(idx_map, vectors): as long as the shorter of the two
ZipObjects(im, vs) ==
    [k \in 1..Min(Len(im), Len(vs)) |-> MakeObject(im[k], vs[k])]

BatchIds(b) == {b.objects[k].id : k \in 1..Len(b.objects)}

\* ---- the steps of main()
\* The run that just ended resumed from the checkpoint and committed.
ResumedAndCommitted ==
    /\ pc = "done"
    /\ args.checkpoint
    /\ args.offset = 0
    /\ "write" \notin warned

\* lines 171-179: a new process parses its command line
StartRun(offset, limit, checkpoint) ==
    /\ pc = "idle"
    /\ args' = [offset |-> offset, limit |-> limit, checkpoint |-> checkpoint]
    /\ pc' = "load_model"
    /\ UNCHANGED <<cards, cpFile, batchFile, failed, warned, runVars, cpBefore,
                   batchBefore, prev, textVars>>

NoArgs == [offset |-> 0, limit |-> 0, checkpoint |-> FALSE]

\* The process ends (main returns, or the exception ends it): its memory is
\* gone, the files stay.
Exit ==
    /\ pc \in {"done", "aborted"}
    /\ pc' = "idle"
    /\ args' = NoArgs
    /\ failed' = "none"
    /\ warned' = {}
    /\ kind' = "none"
    /\ start_offset' = 0
    /\ texts' = <<>>
    /\ idx_map' = <<>>
    /\ vectors' = <<>>
    /\ enc_i' = 0
    /\ objects' = <<>>
    /\ cpBefore' = cpFile
    /\ batchBefore' = batchFile
    /\ prev' = IF ResumedAndCommitted
               THEN [ok |-> TRUE, limit |-> args.limit, ids |-> BatchIds(batchFile)]
               ELSE NoPrev
    /\ UNCHANGED <<cards, cpFile, batchFile, textVars>>

Abort(step) ==
    /\ pc' = "aborted"
    /\ failed' = step

\* line 181: load_model returns ("st", ..) or ("hf", ..), or raises
LoadModel(k) ==
    /\ pc = "load_model"
    /\ IF k = "raise"
       THEN Abort("load_model") /\ UNCHANGED kind
       ELSE kind' = k /\ pc' = "load_cards" /\ UNCHANGED failed
    /\ UNCHANGED <<cards, cpFile, batchFile, args, warned, start_offset, texts,
                   idx_map, vectors, enc_i, objects, cpBefore, batchBefore, prev,
                   textVars>>

\* lines 193-194: open and json.load of the card file, which may raise
LoadCards(ok) ==
    /\ pc = "load_cards"
    /\ IF ok THEN pc' = "resolve" /\ UNCHANGED failed ELSE Abort("load_cards")
    /\ UNCHANGED <<cards, cpFile, batchFile, args, warned, runVars, cpBefore,
                   batchBefore, prev, textVars>>

\* ResolveOffset with only FileNotFoundError caught: any other exception of
\* the read ends the run
ResolveOffsetUncaught ==
    /\ pc = "resolve"
    /\ IF args.checkpoint /\ ReadRaises(cpFile)
       THEN Abort("resolve") /\ UNCHANGED start_offset
       ELSE /\ start_offset' = ResolvedOffset(args.offset, args.checkpoint, cpFile)
            /\ pc' = "window"
            /\ UNCHANGED failed
    /\ UNCHANGED <<cards, cpFile, batchFile, args, warned, kind, texts, idx_map,
                   vectors, enc_i, objects, cpBefore, batchBefore, prev, textVars>>

\* lines 196-208
ResolveOffset ==
    /\ pc = "resolve"
    /\ start_offset' = ResolvedOffset(args.offset, args.checkpoint, cpFile)
    /\ warned' = IF args.checkpoint /\ ReadRaises(cpFile)
                 THEN warned \cup {"read"} ELSE warned
    /\ pc' = "window"
    /\ UNCHANGED <<cards, cpFile, batchFile, args, failed, kind, texts, idx_map,
                   vectors, enc_i, objects, cpBefore, batchBefore, prev, textVars>>

\* lines 210-231 (the bound w and accepted hold the loop's result as values)
Window ==
    /\ pc = "window"
    /\ \E w \in {WindowLoop(cards, start_offset, args.limit, 1, 0, 0, <<>>)} :
       \E accepted \in {[k \in 1..Len(w.acc) |-> CardAt(cards, w.acc[k])]} :
          IF w.raised
          THEN Abort("normalize") /\ UNCHANGED <<texts, idx_map>>
          ELSE /\ texts' = [k \in 1..Len(accepted) |->
                               build_embed_text(accepted[k], include_name)]
               /\ idx_map' = [k \in 1..Len(accepted) |->
                               [cid |-> accepted[k].id,
                                props |-> extract_props(accepted[k])]]
               /\ pc' = "encode"
               /\ UNCHANGED failed
    /\ UNCHANGED <<cards, cpFile, batchFile, args, warned, kind, start_offset,
                   vectors, enc_i, objects, cpBefore, batchBefore, prev, textVars>>

\* EncodeBatch with the batch file opened for writing before the encode loop:
\* an exception of model.encode leaves it cut short
EncodeBatchFileOpen(ok) ==
    /\ pc = "encode"
    /\ enc_i < Len(texts)
    /\ IF ok
       THEN /\ vectors' = vectors \o EncodeRows(Slice(texts, enc_i, batch_size(kind)))
            /\ enc_i' = enc_i + batch_size(kind)
            /\ UNCHANGED <<pc, failed, batchFile>>
       ELSE Abort("encode") /\ batchFile' = BatchPartial /\ UNCHANGED <<vectors, enc_i>>
    /\ UNCHANGED <<cards, cpFile, args, warned, kind, start_offset,
                   texts, idx_map, objects, cpBefore, batchBefore, prev, textVars>>

\* lines 236-249: one pass of the encode loop; model.encode may raise
EncodeBatch(ok) ==
    /\ pc = "encode"
    /\ enc_i < Len(texts)
    /\ IF ok
       THEN /\ vectors' = vectors \o EncodeRows(Slice(texts, enc_i, batch_size(kind)))
            /\ enc_i' = enc_i + batch_size(kind)
            /\ UNCHANGED <<pc, failed>>
       ELSE Abort("encode") /\ UNCHANGED <<vectors, enc_i>>
    /\ UNCHANGED <<cards, cpFile, batchFile, args, warned, kind, start_offset,
                   texts, idx_map, objects, cpBefore, batchBefore, prev, textVars>>

\* lines 251-262: the assertion, then the zip
Assemble ==
    /\ pc = "encode"
    /\ enc_i >= Len(texts)
    /\ IF Len(vectors) = Len(idx_map)
       THEN /\ objects' = ZipObjects(idx_map, vectors)
            /\ pc' = "write_batch"
            /\ UNCHANGED failed
       ELSE Abort("assert") /\ UNCHANGED objects
    /\ UNCHANGED <<cards, cpFile, batchFile, args, warned, kind, start_offset,
                   texts, idx_map, vectors, enc_i, cpBefore, batchBefore, prev,
                   textVars>>

\* lines 264-268: open(.., "w") truncates, json.dump writes; either may raise
WriteBatch(outcome) ==
    /\ pc = "write_batch"
    /\ CASE outcome = "ok" ->
              /\ batchFile' = BatchOk(objects)
              /\ pc' = IF args.checkpoint THEN "commit" ELSE "done"
              /\ UNCHANGED failed
         [] outcome = "open_raises" ->
              /\ Abort("write_batch")
              /\ UNCHANGED batchFile
         [] OTHER ->
              /\ Abort("write_batch")
              /\ batchFile' = BatchPartial
    /\ UNCHANGED <<cards, cpFile, args, warned, runVars, cpBefore, batchBefore,
                   prev, textVars>>

\* NextOffset with the start offset forgotten
NextOffsetOfBatch(start, objs) == Len(objs)

\* NextOffset counting from the explicit offset instead of the resolved one
NextOffsetFromArgs(start, objs) == args.offset + Len(objs)

\* line 272
NextOffset(start, objs) == start + Len(objs)

\* lines 271-286: open(.., "w") truncates the checkpoint, json.dump writes it;
\* an exception of either is caught and printed
Commit(outcome) ==
    /\ pc = "commit"
    /\ CASE outcome = "ok" ->
              /\ cpFile' = CpFile("map", "int", NextOffset(start_offset, objects), Len(cards))
              /\ UNCHANGED warned
         [] outcome = "open_raises" ->
              /\ warned' = warned \cup {"write"}
              /\ UNCHANGED cpFile
         [] OTHER ->
              /\ warned' = warned \cup {"write"}
              /\ cpFile' = CpGarbage
    /\ pc' = "done"
    /\ UNCHANGED <<cards, batchFile, args, failed, runVars, cpBefore, batchBefore,
                   prev, textVars>>

IoOutcomes == {"ok", "open_raises", "write_raises"}

TextIdle ==
    /\ card = PoolCard(1)
    /\ include_name = FALSE
    /\ text_out = None

Init ==
    /\ cards \in Collections
    /\ cpFile \in InitialCheckpoints
    /\ batchFile = BatchMissing
    /\ args = NoArgs
    /\ pc = "idle"
    /\ failed = "none"
    /\ warned = {}
    /\ kind = "none"
    /\ start_offset = 0
    /\ texts = <<>>
    /\ idx_map = <<>>
    /\ vectors = <<>>
    /\ enc_i = 0
    /\ objects = <<>>
    /\ cpBefore = cpFile
    /\ batchBefore = batchFile
    /\ prev = NoPrev
    /\ TextIdle

Next ==
    \/ \E o \in Offsets, l \in Limits, c \in BOOLEAN : StartRun(o, l, c)
    \/ \E k \in {"st", "hf", "raise"} : LoadModel(k)
    \/ \E ok \in BOOLEAN : LoadCards(ok)
    \/ ResolveOffset
    \/ Window
    \/ \E ok \in BOOLEAN : EncodeBatch(ok)
    \/ Assemble
    \/ \E o \in IoOutcomes : WriteBatch(o)
    \/ \E o \in IoOutcomes : Commit(o)
    \/ Exit

Spec == Init /\ [][Next]_vars

\* ------------------------------------------- the normalizer, on its own
\* The cards build_embed_text is applied to: every combination of absent,
\* empty and non-empty texts, with up to MaxFaces faces.
TextFaces ==
    [type_line : {None, <<>>, <<"t1">>}, oracle_text : {None, <<>>, <<"o1">>, <<"o2">>}]

TextCards ==
    [name : {None, <<"N">>}, type_line : {<<>>, <<"T">>}, mana_cost : {None, <<"M">>},
     colors : {<<>>, <<"R">>, <<"W", "X">>}, oracle_text : {None, <<>>, <<"O">>},
     card_faces : UNION {[1..n -> TextFaces] : n \in 0..MaxFaces}]

InitText ==
    /\ cards = <<>>
    /\ cpFile = CpMissing
    /\ batchFile = BatchMissing
    /\ args = NoArgs
    /\ pc = "text"
    /\ failed = "none"
    /\ warned = {}
    /\ kind = "none"
    /\ start_offset = 0
    /\ texts = <<>>
    /\ idx_map = <<>>
    /\ vectors = <<>>
    /\ enc_i = 0
    /\ objects = <<>>
    /\ cpBefore = cpFile
    /\ batchBefore = batchFile
    /\ prev = NoPrev
    /\ card \in TextCards
    /\ include_name \in BOOLEAN
    /\ text_out = None

\* text = build_embed_text(c, args.include_name)
BuildText ==
    /\ pc = "text"
    /\ text_out' = build_embed_text(card, include_name)
    /\ pc' = "text_done"
    /\ UNCHANGED <<cards, cpFile, batchFile, args, failed, warned, runVars,
                   cpBefore, batchBefore, prev, card, include_name>>

NextText == BuildText

SpecText == InitText /\ [][NextText]_vars

\* ---- C9
\* The oracle fragment of a text: what follows its "Oracle: " label.
HasOracleLine(text) == \E k \in 1..Len(text) : text[k] = "Oracle: "
OracleFragment(text) ==
    LET k == CHOOSE n \in 1..Len(text) : text[n] = "Oracle: "
    IN  SubSeq(text, k + 1, Len(text))

FaceQualifies(f) == Truthy(f.type_line) \/ Truthy(f.oracle_text)
FaceString(f) ==
    (IF f.type_line = None THEN <<>> ELSE f.type_line) \o <<" :: ">>
    \o (IF f.oracle_text = None THEN <<>> ELSE f.oracle_text)
\* the " || "-joined strings of the qualifying faces, in face order
JoinedFaces(c) ==
    LET q == SelectSeq(c.card_faces, FaceQualifies)
    IN  Join([k \in 1..Len(q) |-> FaceString(q[k])], <<" || ">>)

\* C9: for a card with an empty or absent top-level oracle text and a
\* non-empty card_faces, the oracle fragment of build_embed_text is the
\* " || "-joined "<type line> :: <oracle text>" strings of exactly the faces
\* with a non-empty type line or oracle text, in face order, and there is no
\* Oracle line when no face qualifies; a non-empty top-level oracle text is
\* the fragment instead.
C9_OracleFragment ==
    pc = "text_done" =>
        /\ (~Truthy(card.oracle_text) /\ card.card_faces # <<>>) =>
              IF JoinedFaces(card) = <<>>
              THEN ~HasOracleLine(text_out)
              ELSE HasOracleLine(text_out)
                   /\ OracleFragment(text_out) = JoinedFaces(card)
        /\ Truthy(card.oracle_text) =>
              HasOracleLine(text_out) /\ OracleFragment(text_out) = card.oracle_text

\* a two-faced card, the first face with an oracle text only, the second
\* with both, and a one-faced card whose face does not qualify
C9_Witness ==
    /\ pc = "text_done"
    /\ ~Truthy(card.oracle_text)
    /\ Len(card.card_faces) = 2
    /\ card.card_faces[1] = [type_line |-> None, oracle_text |-> <<"o2">>]
    /\ card.card_faces[2] = [type_line |-> <<"t1">>, oracle_text |-> <<"o1">>]
    /\ OracleFragment(text_out) = <<" :: ", "o2", " || ", "t1", " :: ", "o1">>

\* ------------------------------------------------ the claims on the runs
\* The run has resolved its start offset and has not ended by an exception.
AfterResolve == pc \in {"window", "encode", "write_batch", "commit", "done"}
\* The run has windowed the collection.
AfterWindow == pc \in {"encode", "write_batch", "commit", "done"}
\* The run has encoded and assembled its objects.
AfterAssemble == pc \in {"write_batch", "commit", "done"}

HasId(coll, p) == coll[p] # 2
\* the positions (1-based) of the identifier-bearing cards that lie at or
\* after the 0-based index `start`, in collection order
IdPositions(coll, start) ==
    LET all == [p \in 1..Len(coll) |-> p]
        Keep(p) == p > start /\ HasId(coll, p)
    IN  SelectSeq(all, Keep)
FirstN(s, n) == SubSeq(s, 1, Min(n, Len(s)))
IdsAt(ps) == [k \in 1..Len(ps) |-> CardId(ps[k])]
IdxIds == [k \in 1..Len(idx_map) |-> idx_map[k].cid]
ObjectIds(objs) == [k \in 1..Len(objs) |-> objs[k].id]

\* ---- C2
\* C2 as claimed: the start offset is the explicit offset when that is
\* non-zero, else the next_offset of a checkpoint file that exists and is
\* readable, else 0.  (Nothing is said here of a next_offset that is a
\* numeric string or a float: see C5.)
C2_AsClaimed ==
    (AfterResolve /\ pc # "done" /\ cpFile.t \notin {"str", "float"}) =>
        start_offset =
            IF args.offset # 0 THEN args.offset
            ELSE IF args.checkpoint /\ cpFile.kind = "map" /\ cpFile.t = "int"
                 THEN cpFile.v
                 ELSE 0

\* C2, amended: the start offset is the explicit offset when that is
\* non-zero; else, when a checkpoint path is given, the file is a JSON mapping
\* and int() turns its next_offset (0 when the key is missing) into a
\* positive integer, that integer; else 0.
C2_StartOffset ==
    (AfterResolve /\ pc # "done") =>
        start_offset =
            IF args.offset # 0 THEN args.offset
            ELSE IF /\ args.checkpoint
                    /\ cpFile.kind = "map"
                    /\ cpFile.t \in {"int", "str", "float"}
                    /\ cpFile.v > 0
                 THEN cpFile.v
                 ELSE 0

\* a run that found a negative next_offset, written by an earlier run, and
\* starts at 0
C2_Witness ==
    /\ pc = "window"
    /\ args.checkpoint
    /\ args.offset = 0
    /\ cpFile.kind = "map" /\ cpFile.t = "int" /\ cpFile.v < 0
    /\ start_offset = 0

\* ---- C3
\* C3 as claimed: whatever the explicit offset and the limit, a commit never
\* stores a next_offset smaller than the one stored before.
C3_AsClaimed ==
    [][(cpFile.kind = "map" /\ cpFile.t = "int" /\ cpFile'.kind = "map")
          => cpFile'.v >= cpFile.v]_vars

\* C3, amended: a commit of a run with no explicit offset, or with an
\* explicit offset that is not smaller than the stored next_offset, never
\* stores a next_offset smaller than the one stored before.
C3_Monotone ==
    [][(/\ cpFile.kind = "map" /\ cpFile.t = "int" /\ cpFile'.kind = "map"
        /\ (args.offset = 0 \/ args.offset >= cpFile.v))
          => cpFile'.v >= cpFile.v]_vars

\* a resumed run that has advanced the stored next_offset
C3_Witness ==
    /\ pc = "done"
    /\ args.offset = 0
    /\ cpBefore.kind = "map" /\ cpBefore.t = "int" /\ cpBefore.v > 0
    /\ cpFile.kind = "map" /\ cpFile.v > cpBefore.v

\* ---- C4
\* C4: when the checkpoint write fails (a warning), on open or part-way, the
\* checkpoint file still holds the prior valid checkpoint, the run ends
\* normally and its batch file is intact.
C4_AtomicCommit ==
    (pc = "done" /\ "write" \in warned /\ cpBefore.kind = "map" /\ cpBefore.t = "int") =>
        /\ cpFile = cpBefore
        /\ failed = "none"
        /\ batchFile = BatchOk(objects)

\* ---- C5
\* C5 as claimed: a checkpoint file that is not JSON, not a mapping, or whose
\* next_offset is not an integer gives a warning, the start offset of a run
\* with no checkpoint, no abort, and a complete batch file.
C5_AsClaimed ==
    LET malformed == \/ cpBefore.kind \in {"garbage", "notmap"}
                     \/ (cpBefore.kind = "map"
                         /\ cpBefore.t \in {"str", "float", "null", "badstr"})
    IN  (args.checkpoint /\ malformed) =>
            /\ failed # "resolve"
            /\ AfterResolve => ("read" \in warned /\ start_offset = args.offset)
            /\ pc = "done" => batchFile = BatchOk(objects)

\* C5, amended: a checkpoint file that is not JSON, not a mapping, or whose
\* next_offset int() rejects (null, a non-numeric string) gives a warning, the
\* start offset of a run with no checkpoint, no abort, and a complete batch
\* file; a next_offset that is a numeric string or a float is converted by
\* int() and used as the checkpoint, with no warning.
C5_Malformed ==
    LET rejected == \/ cpBefore.kind \in {"garbage", "notmap"}
                    \/ (cpBefore.kind = "map" /\ cpBefore.t \in {"null", "badstr"})
        converted == cpBefore.kind = "map" /\ cpBefore.t \in {"str", "float"}
    IN  /\ (args.checkpoint /\ rejected) =>
            /\ failed # "resolve"
            /\ AfterResolve => ("read" \in warned /\ start_offset = args.offset)
            /\ pc = "done" =>
                  /\ batchFile = BatchOk(objects)
                  /\ ObjectIds(objects) \in
                        {IdsAt(FirstN(IdPositions(cards, args.offset), n)) : n \in 0..Len(cards)}
        /\ (args.checkpoint /\ converted) =>
            /\ failed # "resolve"
            /\ AfterResolve =>
                  /\ "read" \notin warned
                  /\ start_offset = IF args.offset = 0 /\ cpBefore.v > 0
                                    THEN cpBefore.v ELSE args.offset

\* a run that met a checkpoint file cut short by an earlier failed write,
\* and has written its batch
C5_Witness ==
    /\ pc = "done"
    /\ args.checkpoint
    /\ cpBefore = CpGarbage
    /\ "read" \in warned
    /\ Len(objects) > 0
    /\ batchFile = BatchOk(objects)

\* ---- C6
\* C6: a run that fails while loading the model or the cards, normalizing a
\* card or encoding leaves the batch file and the checkpoint file as they
\* were; and the checkpoint file is written only after the batch file has
\* been written completely.
C6_CommitLast ==
    /\ [](( pc = "aborted"
            /\ failed \in {"load_model", "load_cards", "normalize", "encode", "assert"})
          => (batchFile = batchBefore /\ cpFile = cpBefore))
    /\ [](pc = "aborted" => cpFile = cpBefore)
    /\ [][cpFile' # cpFile => (pc = "commit" /\ batchFile = BatchOk(objects))]_vars

\* a run that failed in the encode loop after an earlier run had written a
\* batch and a checkpoint
C6_Witness ==
    /\ pc = "aborted"
    /\ failed = "encode"
    /\ Len(vectors) > 0
    /\ batchBefore.kind = "ok" /\ Len(batchBefore.objects) > 0
    /\ cpBefore.kind = "map" /\ cpBefore.t = "int"

\* ---- C7
\* C7 as claimed: the batch holds the identifier-bearing cards at positions
\* >= start offset, in order, cut to the first `limit` of them when limit is
\* non-zero and all of them when it is 0; a card with no identifier never
\* raises.
C7_AsClaimed ==
    /\ AfterWindow =>
          IdxIds = IdsAt(IF args.limit # 0
                         THEN FirstN(IdPositions(cards, start_offset), args.limit)
                         ELSE IdPositions(cards, start_offset))
    /\ (pc = "aborted" /\ failed = "normalize") =>
          \E p \in 1..Len(cards) : p > start_offset /\ cards[p] = 3

\* C7, amended: as claimed for limit >= 0; a negative limit cuts the batch to
\* the first one of these cards.
C7_Window ==
    /\ AfterWindow =>
          IdxIds = IdsAt(IF args.limit > 0
                         THEN FirstN(IdPositions(cards, start_offset), args.limit)
                         ELSE IF args.limit = 0
                         THEN IdPositions(cards, start_offset)
                         ELSE FirstN(IdPositions(cards, start_offset), 1))
    /\ pc = "done" => ObjectIds(batchFile.objects) = IdxIds
    /\ (pc = "aborted" /\ failed = "normalize") =>
          \E p \in 1..Len(cards) : p > start_offset /\ cards[p] = 3

\* the cards [a, b, no-id] with limit 0 and offset 0 give the objects a, b
C7_Witness ==
    /\ pc = "done"
    /\ cards = <<1, 1, 2>>
    /\ args.limit = 0
    /\ start_offset = 0
    /\ ObjectIds(batchFile.objects) = <<CardId(1), CardId(2)>>

\* ---- C8
\* C8: whatever the batch size, there is one vector per text, the k-th vector
\* is the normalized encoder row of the k-th text, and the k-th object pairs
\* the k-th accepted card's id and null-free properties with the k-th vector.
C8_Encode ==
    AfterAssemble =>
        /\ pc = "done" => batchFile = BatchOk(objects)
        /\ Len(vectors) = Len(texts)
        /\ Len(objects) = Len(idx_map)
        /\ Len(idx_map) = Len(texts)
        /\ \A k \in 1..Len(texts) :
              /\ vectors[k] = l2_normalize(RawVector(texts[k]))
              /\ objects[k].id = idx_map[k].cid
              /\ objects[k].vector = vectors[k]
              /\ objects[k].properties.scryfall_id = idx_map[k].cid
              /\ \A key \in PropKeys :
                    IF idx_map[k].props[key] = None
                    THEN key \notin DOMAIN objects[k].properties
                    ELSE /\ key \in DOMAIN objects[k].properties
                         /\ objects[k].properties[key] = idx_map[k].props[key]

\* three texts, the first and third equal, encoded in batches of fewer than
\* three
C8_Witness ==
    /\ pc = "done"
    /\ Len(texts) = 3
    /\ texts[1] = texts[3] /\ texts[1] # texts[2]
    /\ vectors[1] # vectors[2]
    /\ batch_size(kind) < 3
    /\ batchFile = BatchOk(objects)

\* ---- C1
\* the largest position among the cards with these identifiers
LastPosition(ids) ==
    CHOOSE p \in 1..Len(cards) :
        /\ CardId(p) \in ids
        /\ \A q \in 1..Len(cards) : CardId(q) \in ids => q <= p

\* where the run that emitted `ids` under `limit` stopped reading the
\* collection (a 0-based index): after its last card when the limit cut it,
\* at the end otherwise
StoppedAt(ids, limit) ==
    IF ids # {} /\ limit # 0 /\ Cardinality(ids) >= limit
    THEN LastPosition(ids)
    ELSE Len(cards)

\* C1: when a run with a checkpoint path and no explicit offset has committed
\* and the next run has the same path, the same limit (>= 0) and no explicit
\* offset, the second batch is the window that starts where the first run
\* stopped, and shares no card with the first batch.
C1_ResumeIdempotent ==
    (ResumedAndCommitted /\ prev.ok /\ prev.limit = args.limit /\ args.limit >= 0) =>
        LET from == IdPositions(cards, StoppedAt(prev.ids, prev.limit))
        IN  /\ BatchIds(batchFile) \cap prev.ids = {}
            /\ ObjectIds(batchFile.objects) =
                  IdsAt(IF args.limit = 0 THEN from ELSE FirstN(from, args.limit))

\* ------------------------------------------------- repeated resumption
\* Runs that all succeed, repeated against one checkpoint path with no
\* explicit offset and one limit >= 1, over a collection with no malformed
\* card, starting with no checkpoint file.  Every run that is started runs
\* to its end, and a new run is started whenever the last one has ended.
InitResume ==
    /\ cards \in UNION {[1..n -> {1, 2}] : n \in 0..MaxCards}
    /\ cpFile = CpMissing
    /\ batchFile = BatchMissing
    /\ args = NoArgs
    /\ pc = "idle"
    /\ failed = "none"
    /\ warned = {}
    /\ kind = "none"
    /\ start_offset = 0
    /\ texts = <<>>
    /\ idx_map = <<>>
    /\ vectors = <<>>
    /\ enc_i = 0
    /\ objects = <<>>
    /\ cpBefore = cpFile
    /\ batchBefore = batchFile
    /\ prev = NoPrev
    /\ TextIdle

StartResumed ==
    \E l \in 1..MaxLimit :
        /\ prev.ok => l = prev.limit
        /\ StartRun(0, l, TRUE)

NextResume ==
    \/ StartResumed
    \/ \E k \in {"st", "hf"} : LoadModel(k)
    \/ LoadCards(TRUE)
    \/ ResolveOffset
    \/ Window
    \/ EncodeBatch(TRUE)
    \/ Assemble
    \/ WriteBatch("ok")
    \/ Commit("ok")
    \/ Exit

SpecResume == InitResume /\ [][NextResume]_vars /\ WF_vars(NextResume)

\* ---- C10
\* C10: under repeated resumption the stored next_offset never exceeds the
\* number of cards, every identifier-bearing card is eventually in a batch
\* file, and eventually a run writes an empty batch and leaves next_offset as
\* it found it.
C10_Coverage ==
    /\ [](cpFile.kind = "map" => cpFile.v <= Len(cards))
    /\ \A p \in 1..MaxCards :
          <>((p <= Len(cards) /\ HasId(cards, p)) =>
                CardId(p) \in BatchIds(batchFile))
    /\ <>(/\ pc = "done"
          /\ batchFile = BatchOk(<<>>)
          /\ cpBefore.kind = "map"
          /\ cpFile.kind = "map"
          /\ cpFile.v = cpBefore.v)

\* the run that finds nothing left, after the cards [no-id, a, b] were
\* emitted one per run
C10_Witness ==
    /\ pc = "done"
    /\ cards = <<2, 1, 1>>
    /\ args.limit = 1
    /\ batchFile = BatchOk(<<>>)
    /\ cpBefore.kind = "map"
    /\ cpFile.v = cpBefore.v
    /\ cpFile.v = 3

====
